---- MODULE Spec2Model ----
(***************************************************************************)
(* ezpzdb: the Database class (lazy, buffered document store).  One handle *)
(* bound to one directory; mutations are buffered per table and written    *)
(* out by saveData, which rewrites the table's log and index.              *)
(*                                                                         *)
(* JavaScript values are modelled with their types where the code's        *)
(* comparisons depend on them: ids given by callers are numbers, the keys  *)
(* of a for-in loop over table.index are strings.                          *)
(***************************************************************************)
EXTENDS Integers, Sequences, FiniteSets, TLC

\* ---------------------------------------------------------------- bounds
\* Highest id insert may assign in the model (lastId is capped in Insert).
MaxId == 2
\* Largest clock value Date.now() may return.
MaxTime == 1
\* Number of I/O failures and crashes the environment may inject.
MaxFailures == 1
\* Number of calls and timer events in one run of the model; it bounds
\* this.writes, the pending arrays and timesUsed as well.
MaxSteps == 4
\* Constructor arguments of the modelled handle (small, so they trigger).
WritesToSave == 2
DeltaTimeToSave == 0

\* ------------------------------------------------------- program constants
\* timesUsed is not incremented beyond this value.
UsageCap == 100
\* table.truncate when no truncation is pending.
NoTruncate == -1
\* findIndex's result when no element matches.
NotFound == -1

Tables == {"t1"}
\* The handles of the process, in the order they were constructed.
HandleSeq == <<"h1", "h2">>
Handles == {HandleSeq[k] : k \in 1..Len(HandleSeq)}
Ids == 1..MaxId

\* ------------------------------------------------------------ JS values
\* A field that is absent (undefined) holds 0; 1 is an ASCII string value,
\* 2 a string value holding one non-ASCII character (one UTF-16 unit, two
\* UTF-8 bytes).
Undefined == 0
AsciiVals == {1}
WideVals == {2}
Vals == AsciiVals \cup WideVals
FieldNames == {"a", "b"}

\* A number and a string of its decimal digits are different values for ===
\* and for Array.prototype.includes; < and > convert both to numbers.
Num(n) == [t |-> "number", v |-> n]
Str(n) == [t |-> "string", v |-> n]
StrictEquals(x, y) == x.t = y.t /\ x.v = y.v
ToNumber(x) == x.v

\* A record: the id and the fields a, b (Undefined when absent).
NoRec == [id |-> Undefined, a |-> Undefined, b |-> Undefined]
MkRec(i, va, vb) == [id |-> i, a |-> va, b |-> vb]

\* Object.assign(target, data): every own property of data overwrites.
ObjectAssign(target, data) ==
    [id |-> IF data.id # Undefined THEN data.id ELSE target.id,
     a  |-> IF data.a # Undefined THEN data.a ELSE target.a,
     b  |-> IF data.b # Undefined THEN data.b ELSE target.b]

\* --------------------------------------------------------------- codec
\* JSON.stringify: a sequence of UTF-16 units.  Each token stands for the
\* text of one key/value pair or of one brace; the order of the pairs in
\* the text plays no part in what follows.
Tok(k, v) == [k |-> k, v |-> v]
StringifyField(r, f) == IF r[f] = Undefined THEN <<>> ELSE <<Tok(f, r[f])>>
JSONstringify(r) ==
    <<Tok("{", 0)>> \o StringifyField(r, "id") \o StringifyField(r, "a")
        \o StringifyField(r, "b") \o <<Tok("}", 0)>>

\* stream.write(string): the string's UTF-8 bytes.  A non-ASCII value takes
\* one byte more than its length in UTF-16 units.
RECURSIVE Utf8(_)
Utf8(chars) ==
    IF chars = <<>> THEN <<>>
    ELSE LET c == Head(chars) IN
         (IF c.k \in FieldNames /\ c.v \in WideVals
          THEN <<c, Tok("cont", 0)>> ELSE <<c>>) \o Utf8(Tail(chars))

\* The result of JSON.parse when the text is no JSON value.
SyntaxError == [id |-> -1, a |-> Undefined, b |-> Undefined]

RECURSIVE ParseBody(_, _, _)
ParseBody(bytes, i, acc) ==
    IF i > Len(bytes) THEN SyntaxError
    ELSE LET c == bytes[i] IN
         IF c.k = "}" THEN (IF i = Len(bytes) THEN acc ELSE SyntaxError)
         ELSE IF c.k \in (FieldNames \cup {"id"})
         THEN IF c.k \in FieldNames /\ c.v \in WideVals
              THEN IF i < Len(bytes) /\ bytes[i + 1].k = "cont"
                   THEN ParseBody(bytes, i + 2, [acc EXCEPT ![c.k] = c.v])
                   ELSE SyntaxError
              ELSE ParseBody(bytes, i + 1, [acc EXCEPT ![c.k] = c.v])
         ELSE SyntaxError

\* JSON.parse(buf): the buffer's bytes decoded and parsed.
JSONparse(bytes) ==
    IF Len(bytes) = 0 \/ bytes[1].k # "{" THEN SyntaxError
    ELSE ParseBody(bytes, 2, NoRec)

\* fs.readSync(fd, buf, 0, len, pos) into a new Buffer(len): the bytes of
\* the file from pos on; what lies beyond the end of the file is not read
\* and the buffer keeps its filler there.
ReadSync(file, pos, len) ==
    [i \in 1..len |-> IF pos + i <= Len(file) THEN file[pos + i]
                      ELSE Tok("fill", 0)]

\* ---------------------------------------------------------------- state
NoEntry == [pos |-> -1, len |-> -1]
NoCache == [st |-> "undefined", item |-> NoRec, timesUsed |-> 0]
NullCache == [st |-> "null", item |-> NoRec, timesUsed |-> 0]

\* createTable's object; exists = FALSE stands for this.tables[table]
\* being undefined.
NewTable ==
    [exists |-> TRUE, inserts |-> <<>>, updates |-> <<>>, removals |-> <<>>,
     cache |-> [i \in Ids |-> NoCache], index |-> [i \in Ids |-> NoEntry],
     truncate |-> NoTruncate, lastId |-> 0]
NoTable == [NewTable EXCEPT !.exists = FALSE]

\* The files of one table directory.
NoFiles ==
    [dir |-> FALSE, db |-> <<>>, dbExists |-> FALSE,
     dbnew |-> <<>>, dbnewExists |-> FALSE,
     index |-> <<>>, indexExists |-> FALSE,
     meta |-> 0, metaExists |-> FALSE]

VARIABLES
    tables,             \* this.tables
    disk,               \* the table directories under dbpath
    writes,             \* this.writes
    lastWrite,          \* this.lastWrite
    forceSave,          \* this.forceSave
    noMoreSaves,        \* this.noMoreSaves
    saveTimer,          \* a saveData timeout is pending
    requestedShutdowns, \* module-level counter
    exiting,            \* the process is on its way out: the delayed exit
                        \* is scheduled, or the constructor threw
    failures,           \* failures injected so far
    steps,              \* calls and timer events so far
    lastOp,             \* the last call and what it returned or threw
    handles,            \* the Database objects of one process, reduced to
                        \* what gracefulShutdown and saveData's handlers use
    microtasks,         \* .then handlers of resolved saveData promises
    exited              \* exeunt(0) has run

vars == <<tables, disk, writes, lastWrite, forceSave, noMoreSaves, saveTimer,
          requestedShutdowns, exiting, failures, steps, lastOp,
          handles, microtasks, exited>>

\* ---------------------------------------------------------- call results
Ret(kind, rec, n, list) == [kind |-> kind, rec |-> rec, n |-> n, list |-> list]
RetTrue == Ret("true", NoRec, 0, <<>>)
RetNull == Ret("null", NoRec, 0, <<>>)
RetUndefined == Ret("undefined", NoRec, 0, <<>>)
RetRec(r) == Ret("record", r, 0, <<>>)
RetNum(n) == Ret("number", NoRec, n, <<>>)
RetList(l) == Ret("list", NoRec, 0, l)
Throw(kind) == Ret(kind, NoRec, 0, <<>>)
Called(op, id, data, ret) ==
    [op |-> op, id |-> id, given |-> data.id, ret |-> ret]

\* --------------------------------------------------------- array helpers
RemoveAt(s, k) == SubSeq(s, 1, k - 1) \o SubSeq(s, k + 1, Len(s))

\* item.id of an element of inserts or updates (kind "object"), and of an
\* element of removals (kind "number": a number has no property id).
UndefinedValue == [t |-> "undefined", v |-> 0]
ItemId(item, kind) == IF kind = "object" THEN Num(item.id) ELSE UndefinedValue

\* arr.findIndex(item => { return item.id === id }): the position of the
\* first match (counted from 1), NotFound when there is none.
FindIndex(arr, kind, id) ==
    IF \E k \in 1..Len(arr) : StrictEquals(ItemId(arr[k], kind), id)
    THEN CHOOSE k \in 1..Len(arr) :
            /\ StrictEquals(ItemId(arr[k], kind), id)
            /\ \A j \in 1..(k - 1) : ~StrictEquals(ItemId(arr[j], kind), id)
    ELSE NotFound

\* x > y: false when either side converts to NaN.
GreaterThan(x, y) ==
    /\ x.t # "undefined"
    /\ y.t # "undefined"
    /\ ToNumber(x) > ToNumber(y)

\* ------------------------------------------------------------ operations
\* tableExists without the test: every name counts as a table.
tableExistsAlways(t) == TRUE

tableExists(t) == tables[t].exists

\* createTable without the test of tableExists: the table object is replaced
\* on every call.
createTableFresh(t) == NewTable

createTable(t) == IF ~tableExists(t) THEN NewTable ELSE tables[t]

\* A handle as its constructor leaves it (flushed is history: a forced flush
\* of this handle has resolved).
NewHandle ==
    [writes |-> 0, forceSave |-> FALSE, noMoreSaves |-> FALSE,
     saveTimer |-> TRUE, flushed |-> FALSE]

\* Every call and timer event is counted; the model stops at MaxSteps.  The
\* calls on the one handle whose tables are modelled leave the other
\* handles of the process alone.
Count ==
    /\ steps < MaxSteps
    /\ steps' = steps + 1
    /\ UNCHANGED <<handles, microtasks, exited>>

Init ==
    /\ tables = [t \in Tables |-> NoTable]
    /\ disk = [t \in Tables |-> NoFiles]
    /\ writes = 0
    /\ lastWrite = 0
    /\ forceSave = FALSE
    /\ noMoreSaves = FALSE
    /\ saveTimer = TRUE
    /\ requestedShutdowns = 0
    /\ exiting = FALSE
    /\ failures = 0
    /\ steps = 0
    /\ lastOp = Called("new", 0, NoRec, RetUndefined)
    /\ handles = [h \in Handles |-> NewHandle]
    /\ microtasks = <<>>
    /\ exited = FALSE

\* The records callers insert: field a set, with or without an id of their
\* own.
InsertData == {MkRec(i, va, Undefined) : i \in {Undefined} \cup Ids, va \in Vals}

\* insert that keeps the id a record brings along.
InsertKeepId(t, data) ==
    /\ Count
    /\ ~exiting
    /\ createTable(t).lastId < MaxId
    /\ LET table == createTable(t)
           id == table.lastId + 1
       IN /\ tables' = [tables EXCEPT ![t] =
                 [table EXCEPT !.lastId = id,
                               !.inserts = Append(@,
                                   IF data.id = Undefined
                                   THEN [data EXCEPT !.id = id] ELSE data)]]
          /\ lastOp' = Called("insert", id, data, RetNum(id))
    /\ writes' = writes + 1
    /\ UNCHANGED <<disk, lastWrite, forceSave, noMoreSaves, saveTimer,
                   requestedShutdowns, exiting, failures>>

\* insert(tableName, data)
Insert(t, data) ==
    /\ Count
    /\ ~exiting
    /\ createTable(t).lastId < MaxId
    /\ LET table == createTable(t)
           id == table.lastId + 1
       IN /\ tables' = [tables EXCEPT ![t] =
                 [table EXCEPT !.lastId = id,
                               !.inserts = Append(@, [data EXCEPT !.id = id])]]
          /\ lastOp' = Called("insert", id, data, RetNum(id))
    /\ writes' = writes + 1
    /\ UNCHANGED <<disk, lastWrite, forceSave, noMoreSaves, saveTimer,
                   requestedShutdowns, exiting, failures>>

\* What callers pass to update: the id and the fields to change.
UpdateData ==
    {MkRec(i, va, Undefined) : i \in Ids, va \in WideVals}
        \cup {MkRec(i, Undefined, vb) : i \in Ids, vb \in AsciiVals}

\* update(tableName, data) on a table that does not exist.
UpdateNoTable(t, data) ==
    /\ Count
    /\ ~exiting
    /\ ~tableExists(t)
    /\ lastOp' = Called("update", data.id, data, Throw("Error"))
    /\ UNCHANGED <<tables, disk, writes, lastWrite, forceSave, noMoreSaves,
                   saveTimer, requestedShutdowns, exiting, failures>>

\* update and remove without the invalidation: the cache is left alone.
InvalidateNothing(cache, id) == cache

\* The cache entry of an id after update and remove: a live entry is
\* replaced by null.
Invalidate(cache, id) ==
    IF cache[id].st = "live" THEN [cache EXCEPT ![id] = NullCache] ELSE cache

\* update(tableName, data)
Update(t, data) ==
    /\ Count
    /\ ~exiting
    /\ tableExists(t)
    /\ LET table == tables[t]
           insertIx == FindIndex(table.inserts, "object", Num(data.id))
       IN tables' = [tables EXCEPT ![t] =
              [table EXCEPT
                 !.inserts = IF insertIx # NotFound
                             THEN [@ EXCEPT ![insertIx] = ObjectAssign(@, data)]
                             ELSE @,
                 !.updates = IF insertIx # NotFound THEN @ ELSE Append(@, data),
                 !.cache = Invalidate(@, data.id)]]
    /\ writes' = writes + 1
    /\ lastOp' = Called("update", data.id, data, RetTrue)
    /\ UNCHANGED <<disk, lastWrite, forceSave, noMoreSaves, saveTimer,
                   requestedShutdowns, exiting, failures>>

\* remove(tableName, id) on a table that does not exist.
RemoveNoTable(t, id) ==
    /\ Count
    /\ ~exiting
    /\ ~tableExists(t)
    /\ lastOp' = Called("remove", id, NoRec, Throw("Error"))
    /\ UNCHANGED <<tables, disk, writes, lastWrite, forceSave, noMoreSaves,
                   saveTimer, requestedShutdowns, exiting, failures>>

\* remove that does not count the write.
RemoveUncounted(t, id) ==
    /\ Count
    /\ ~exiting
    /\ tableExists(t)
    /\ LET table == tables[t]
           insertIx == FindIndex(table.inserts, "object", Num(id))
           updateIx == FindIndex(table.updates, "object", Num(id))
       IN tables' = [tables EXCEPT ![t] =
              [table EXCEPT
                 !.inserts = IF insertIx # NotFound THEN RemoveAt(@, insertIx)
                             ELSE @,
                 !.updates = IF insertIx = NotFound /\ updateIx # NotFound
                             THEN RemoveAt(@, updateIx) ELSE @,
                 !.removals = IF insertIx = NotFound /\ updateIx = NotFound
                              THEN Append(@, id) ELSE @,
                 !.cache = Invalidate(@, id)]]
    /\ writes' = writes
    /\ lastOp' = Called("remove", id, NoRec, RetTrue)
    /\ UNCHANGED <<disk, lastWrite, forceSave, noMoreSaves, saveTimer,
                   requestedShutdowns, exiting, failures>>

\* remove(tableName, id)
Remove(t, id) ==
    /\ Count
    /\ ~exiting
    /\ tableExists(t)
    /\ LET table == tables[t]
           insertIx == FindIndex(table.inserts, "object", Num(id))
           updateIx == FindIndex(table.updates, "object", Num(id))
       IN tables' = [tables EXCEPT ![t] =
              [table EXCEPT
                 !.inserts = IF insertIx # NotFound THEN RemoveAt(@, insertIx)
                             ELSE @,
                 !.updates = IF insertIx = NotFound /\ updateIx # NotFound
                             THEN RemoveAt(@, updateIx) ELSE @,
                 !.removals = IF insertIx = NotFound /\ updateIx = NotFound
                              THEN Append(@, id) ELSE @,
                 !.cache = Invalidate(@, id)]]
    /\ writes' = writes + 1
    /\ lastOp' = Called("remove", id, NoRec, RetTrue)
    /\ UNCHANGED <<disk, lastWrite, forceSave, noMoreSaves, saveTimer,
                   requestedShutdowns, exiting, failures>>

\* ops.forEach(item => { if (item.id > start) ops.splice(ops.indexOf(item), 1) })
\* forEach visits the positions 0 .. len0-1 that still exist; a splice moves
\* the following elements one position down while the visit moves on.
RECURSIVE ForEachSplice(_, _, _, _, _)
ForEachSplice(ops, k, len0, start, kind) ==
    IF k > len0 \/ k > Len(ops) THEN ops
    ELSE IF GreaterThan(ItemId(ops[k], kind), Num(start))
         THEN ForEachSplice(RemoveAt(ops, k), k + 1, len0, start, kind)
         ELSE ForEachSplice(ops, k + 1, len0, start, kind)

\* truncate(tableName, start) on a table that does not exist.
TruncateNoTable(t, start) ==
    /\ Count
    /\ ~exiting
    /\ ~tableExists(t)
    /\ lastOp' = Called("truncate", start, NoRec, Throw("Error"))
    /\ UNCHANGED <<tables, disk, writes, lastWrite, forceSave, noMoreSaves,
                   saveTimer, requestedShutdowns, exiting, failures>>

\* truncate's range test with >= in place of >.
TruncateOutOfRangeAtLimit(t, start) ==
    /\ Count
    /\ ~exiting
    /\ tableExists(t)
    /\ start >= tables[t].lastId
    /\ lastOp' = Called("truncate", start, NoRec, Throw("Error"))
    /\ UNCHANGED <<tables, disk, writes, lastWrite, forceSave, noMoreSaves,
                   saveTimer, requestedShutdowns, exiting, failures>>

\* truncate(tableName, start) with start beyond lastId.
TruncateOutOfRange(t, start) ==
    /\ Count
    /\ ~exiting
    /\ tableExists(t)
    /\ start > tables[t].lastId
    /\ lastOp' = Called("truncate", start, NoRec, Throw("Error"))
    /\ UNCHANGED <<tables, disk, writes, lastWrite, forceSave, noMoreSaves,
                   saveTimer, requestedShutdowns, exiting, failures>>

\* truncate(tableName, start)
Truncate(t, start) ==
    /\ Count
    /\ ~exiting
    /\ tableExists(t)
    /\ start <= tables[t].lastId
    /\ LET table == tables[t]
       IN tables' = [tables EXCEPT ![t] =
              [table EXCEPT
                 !.inserts = ForEachSplice(@, 1, Len(@), start, "object"),
                 !.removals = ForEachSplice(@, 1, Len(@), start, "number"),
                 !.updates = ForEachSplice(@, 1, Len(@), start, "object"),
                 !.truncate = start,
                 !.lastId = start,
                 !.cache = [i \in Ids |-> NoCache]]]
    /\ writes' = writes + 1
    /\ lastOp' = Called("truncate", start, NoRec, RetTrue)
    /\ UNCHANGED <<disk, lastWrite, forceSave, noMoreSaves, saveTimer,
                   requestedShutdowns, exiting, failures>>

\* get(tableName, id) past the table check: what it returns or throws and
\* the table's cache afterwards.  id is a number when a caller passes it and
\* a string when getAll passes a key of table.index.
get(table, files, id) ==
    LET same == [ret |-> RetNull, cache |-> table.cache]
        updateIx == FindIndex(table.updates, "object", id)
        insertIx == FindIndex(table.inserts, "object", id)
        removalIx == FindIndex(table.removals, "number", id)
        cacheItem == table.cache[ToNumber(id)]
        indexEntry == table.index[ToNumber(id)]
        item == JSONparse(ReadSync(files.db, indexEntry.pos, indexEntry.len))
    IN IF updateIx # NotFound
       THEN [same EXCEPT !.ret = RetRec(table.updates[updateIx])]
       ELSE IF insertIx # NotFound
       THEN [same EXCEPT !.ret = RetRec(table.inserts[insertIx])]
       ELSE IF removalIx # NotFound
       THEN same
       ELSE IF cacheItem.st = "live"
       THEN [ret |-> RetRec(cacheItem.item),
             cache |-> IF cacheItem.timesUsed < UsageCap
                       THEN [table.cache EXCEPT ![ToNumber(id)].timesUsed = @ + 1]
                       ELSE table.cache]
       ELSE IF files.dbExists
       THEN IF indexEntry = NoEntry
            THEN [same EXCEPT !.ret = Throw("TypeError")]
            ELSE IF item = SyntaxError
            THEN [same EXCEPT !.ret = Throw("SyntaxError")]
            ELSE [ret |-> RetRec(item),
                  cache |-> [table.cache EXCEPT ![ToNumber(id)] =
                               [st |-> "live", item |-> item, timesUsed |-> 1]]]
       ELSE same

\* get(tableName, id) on a table that does not exist.
GetNoTable(t, id) ==
    /\ Count
    /\ ~exiting
    /\ ~tableExists(t)
    /\ lastOp' = Called("get", id, NoRec, Throw("Error"))
    /\ UNCHANGED <<tables, disk, writes, lastWrite, forceSave, noMoreSaves,
                   saveTimer, requestedShutdowns, exiting, failures>>

\* get(tableName, id) called with a number.
Get(t, id) ==
    /\ Count
    /\ ~exiting
    /\ tableExists(t)
    /\ LET r == get(tables[t], disk[t], Num(id))
       IN /\ tables' = [tables EXCEPT ![t].cache = r.cache]
          /\ lastOp' = Called("get", id, NoRec, r.ret)
    /\ UNCHANGED <<disk, writes, lastWrite, forceSave, noMoreSaves, saveTimer,
                   requestedShutdowns, exiting, failures>>

\* The loop of getAll: get for every key of table.index, in the order of
\* for-in (ascending), until one throws.  fd stays null: the descriptor
\* getAll opens is bound to a variable of the inner block.
RECURSIVE getAllLoop(_, _, _, _)
getAllLoop(table, files, id, allitems) ==
    IF id > MaxId THEN [ret |-> RetList(allitems), cache |-> table.cache]
    ELSE IF table.index[id] = NoEntry
    THEN getAllLoop(table, files, id + 1, allitems)
    ELSE LET r == get(table, files, Str(id))
         IN IF r.ret.kind \in {"TypeError", "SyntaxError"}
            THEN r
            ELSE getAllLoop([table EXCEPT !.cache = r.cache], files, id + 1,
                            Append(allitems, r.ret))

\* getAll(tableName) on a table that does not exist.
GetAllNoTable(t) ==
    /\ Count
    /\ ~exiting
    /\ ~tableExists(t)
    /\ lastOp' = Called("getAll", 0, NoRec, Throw("Error"))
    /\ UNCHANGED <<tables, disk, writes, lastWrite, forceSave, noMoreSaves,
                   saveTimer, requestedShutdowns, exiting, failures>>

\* getAll(tableName)
GetAll(t) ==
    /\ Count
    /\ ~exiting
    /\ tableExists(t)
    /\ LET r == getAllLoop(tables[t], disk[t], 1, <<>>)
       IN /\ tables' = [tables EXCEPT ![t].cache = r.cache]
          /\ lastOp' = Called("getAll", 0, NoRec, r.ret)
    /\ UNCHANGED <<disk, writes, lastWrite, forceSave, noMoreSaves, saveTimer,
                   requestedShutdowns, exiting, failures>>

\* ----------------------------------------------------------------- flush
\* table.removals.includes(id): SameValueZero against every element; the
\* elements are the numbers callers passed to remove.
Includes(removals, id) ==
    \E k \in 1..Len(removals) : StrictEquals(Num(removals[k]), id)

\* table.updates.findIndex(item => { item.id === id }) in saveData: the
\* callback's block has no return statement, so it yields undefined for
\* every element and nothing matches.
FindUpdateToSave(updates, id) == NotFound

\* Whether the loop over table.index writes the entry of key id to the new
\* log: it is neither pending removal nor above the truncate watermark.
Carried(table, id) ==
    ~(\/ Includes(table.removals, id)
      \/ (table.truncate # NoTruncate /\ GreaterThan(id, Num(table.truncate))))

\* What the rewrite has produced so far: the in-memory index, the bytes
\* appended to the new log, the lines of the index file, the offset.
Rewrite(index, out, rows, curoffs) ==
    [index |-> index, out |-> out, rows |-> rows, curoffs |-> curoffs]
IndexRow(id, pos, len) == [id |-> id, pos |-> pos, len |-> len]

\* for (let id in table.index) { ... } : the keys in ascending order.  fd
\* reads the old log.
RECURSIVE CarryOver(_, _, _, _)
CarryOver(table, oldDb, id, acc) ==
    IF id > MaxId THEN acc
    ELSE IF table.index[id] = NoEntry \/ ~Carried(table, Str(id))
    THEN CarryOver(table, oldDb, id + 1, acc)
    ELSE LET updateIndex == FindUpdateToSave(table.updates, Str(id))
             data == JSONstringify(table.updates[updateIndex])
             buf == ReadSync(oldDb, table.index[id].pos, table.index[id].len)
             bytes == IF updateIndex # NotFound THEN Utf8(data) ELSE buf
             len == IF updateIndex # NotFound THEN Len(data) ELSE Len(buf)
         IN CarryOver(table, oldDb, id + 1,
                Rewrite([acc.index EXCEPT ![id] = [pos |-> acc.curoffs, len |-> len]],
                        acc.out \o bytes,
                        Append(acc.rows, IndexRow(id, acc.curoffs, len)),
                        acc.curoffs + len))

\* for (let ix in table.inserts) { ... } : data.length counts UTF-16 units,
\* the stream writes UTF-8 bytes.
RECURSIVE WriteInserts(_, _, _)
WriteInserts(inserts, ix, acc) ==
    IF ix > Len(inserts) THEN acc
    ELSE LET insert == inserts[ix]
             data == JSONstringify(insert)
         IN WriteInserts(inserts, ix + 1,
                Rewrite([acc.index EXCEPT ![insert.id] =
                            [pos |-> acc.curoffs, len |-> Len(data)]],
                        acc.out \o Utf8(data),
                        Append(acc.rows, IndexRow(insert.id, acc.curoffs, Len(data))),
                        acc.curoffs + Len(data)))

\* `inserts.length + updates.length + removals.length + truncate === -1`
NothingToSave(table) ==
    Len(table.inserts) + Len(table.updates) + Len(table.removals)
        + table.truncate = -1

\* The places where the rewrite of one table can throw, in program order:
\* mkdir.sync, fs.openSync of the log, fs.openSync of the index,
\* fs.renameSync, fs.writeFileSync of the meta file.
FailPoints == {"mkdir", "open", "index", "rename", "meta"}
StageNo(x) ==
    CASE x = "mkdir" -> 1 [] x = "open" -> 2 [] x = "index" -> 3
      [] x = "rename" -> 4 [] x = "meta" -> 5 [] OTHER -> 6

\* Whether the statement `stage` has run when the rewrite throws at fp
\* (fp = "none": it runs to its end).
Reached(fp, stage) == StageNo(stage) < StageNo(fp)

\* Both loops of the rewrite, with the pending updates that have no index
\* entry written like inserts.
RewrittenWithOrphans(table, files) ==
    WriteInserts(SelectSeq(table.updates,
                           LAMBDA u : table.index[u.id] = NoEntry
                                        /\ \A k \in 1..Len(table.inserts) :
                                              table.inserts[k].id # u.id)
                    \o table.inserts, 1,
        CarryOver(table, files.db, 1, Rewrite(table.index, <<>>, <<>>, 0)))

\* Both loops of the rewrite of one table.
Rewritten(table, files) ==
    WriteInserts(table.inserts, 1,
        CarryOver(table, files.db, 1, Rewrite(table.index, <<>>, <<>>, 0)))

\* The files of a table after the body of saveData's loop has run up to
\* the statement that throws (fp), or to its end (fp = "none").  The two
\* write streams (the new log, opened for append, and the index) are taken
\* as drained when the handler is left.
SaveFiles(table, files, fp) ==
    [dir |-> files.dir \/ Reached(fp, "mkdir"),
     db |-> IF Reached(fp, "rename")
            THEN files.dbnew \o Rewritten(table, files).out ELSE files.db,
     dbExists |-> files.dbExists \/ Reached(fp, "open"),
     dbnew |-> IF Reached(fp, "rename") THEN <<>>
               ELSE IF Reached(fp, "index")
               THEN files.dbnew \o Rewritten(table, files).out
               ELSE files.dbnew,
     dbnewExists |-> IF Reached(fp, "rename") THEN FALSE
                     ELSE files.dbnewExists \/ Reached(fp, "mkdir"),
     index |-> IF Reached(fp, "index") THEN Rewritten(table, files).rows
               ELSE files.index,
     indexExists |-> files.indexExists \/ Reached(fp, "index"),
     meta |-> IF Reached(fp, "meta") THEN table.lastId ELSE files.meta,
     metaExists |-> files.metaExists \/ Reached(fp, "meta")]

\* The table object after the rewrite, with the truncate watermark left as
\* it was.
SaveMemoryKeepTruncate(table, files, fp) ==
    [exists |-> table.exists,
     inserts |-> IF Reached(fp, "rename") THEN <<>> ELSE table.inserts,
     updates |-> IF Reached(fp, "rename") THEN <<>> ELSE table.updates,
     removals |-> IF Reached(fp, "rename") THEN <<>> ELSE table.removals,
     cache |-> table.cache,
     index |-> IF Reached(fp, "index") THEN Rewritten(table, files).index
               ELSE table.index,
     truncate |-> table.truncate,
     lastId |-> table.lastId]

\* The table object after the same statements: the loops rewrite
\* table.index entry by entry; the pending state is cleared after the rename.
SaveMemory(table, files, fp) ==
    [exists |-> table.exists,
     inserts |-> IF Reached(fp, "rename") THEN <<>> ELSE table.inserts,
     updates |-> IF Reached(fp, "rename") THEN <<>> ELSE table.updates,
     removals |-> IF Reached(fp, "rename") THEN <<>> ELSE table.removals,
     cache |-> table.cache,
     index |-> IF Reached(fp, "index") THEN Rewritten(table, files).index
               ELSE table.index,
     truncate |-> IF Reached(fp, "rename") THEN NoTruncate ELSE table.truncate,
     lastId |-> table.lastId]

\* The loop of saveData over this.tables; the failure fp, if any, hits the
\* first table that has something to save and ends the loop there.
RECURSIVE SaveTables(_, _, _, _)
SaveTables(todo, tbls, dsk, fp) ==
    IF todo = {} THEN [tables |-> tbls, disk |-> dsk, thrown |-> FALSE]
    ELSE LET t == CHOOSE x \in todo : TRUE
             tbls2 == [tbls EXCEPT ![t] = SaveMemory(tbls[t], dsk[t], fp)]
             dsk2 == [dsk EXCEPT ![t] = SaveFiles(tbls[t], dsk[t], fp)]
         IN IF ~tbls[t].exists \/ NothingToSave(tbls[t])
            THEN SaveTables(todo \ {t}, tbls, dsk, fp)
            ELSE IF fp # "none"
            THEN [tables |-> tbls2, disk |-> dsk2, thrown |-> TRUE]
            ELSE SaveTables(todo \ {t}, tbls2, dsk2, fp)

\* saveData's condition with >= in place of the first >.
TimeToSaveAtLimit(now) ==
    \/ writes >= WritesToSave
    \/ (writes > 0 /\ now - lastWrite > DeltaTimeToSave)
    \/ forceSave

\* saveData's condition, with now the value of Date.now().
TimeToSave(now) ==
    \/ writes > WritesToSave
    \/ (writes > 0 /\ now - lastWrite > DeltaTimeToSave)
    \/ forceSave

SomethingToSave == \E t \in Tables : tables[t].exists /\ ~NothingToSave(tables[t])

\* saveData that sets no new timeout when it finds nothing to do.
SaveDataOnce(now, fp) ==
    /\ Count
    /\ saveTimer
    /\ fp # "none" => (failures < MaxFailures /\ SomethingToSave /\ TimeToSave(now))
    /\ IF TimeToSave(now)
       THEN LET r == SaveTables(Tables, tables, disk, fp)
            IN /\ tables' = r.tables
               /\ disk' = r.disk
               /\ IF r.thrown
                  THEN \* the promise is rejected: .catch logs the error
                       /\ UNCHANGED <<writes, lastWrite, forceSave>>
                       /\ saveTimer' = FALSE
                       /\ failures' = failures + 1
                       /\ lastOp' = Called("saveData", 0, NoRec, Throw("IOError"))
                  ELSE /\ writes' = 0
                       /\ lastWrite' = now
                       /\ forceSave' = FALSE
                       /\ saveTimer' = (~forceSave /\ ~noMoreSaves)
                       /\ failures' = failures
                       /\ lastOp' = Called("saveData", 0, NoRec, RetTrue)
       ELSE /\ saveTimer' = FALSE
            /\ lastOp' = Called("saveData", 0, NoRec, RetUndefined)
            /\ UNCHANGED <<tables, disk, writes, lastWrite, forceSave, failures>>
    /\ UNCHANGED <<noMoreSaves, requestedShutdowns, exiting>>

\* The saveData timeout fires: saveData() without a callback.
SaveData(now, fp) ==
    /\ Count
    /\ saveTimer
    /\ fp # "none" => (failures < MaxFailures /\ SomethingToSave /\ TimeToSave(now))
    /\ IF TimeToSave(now)
       THEN LET r == SaveTables(Tables, tables, disk, fp)
            IN /\ tables' = r.tables
               /\ disk' = r.disk
               /\ IF r.thrown
                  THEN \* the promise is rejected: .catch logs the error
                       /\ UNCHANGED <<writes, lastWrite, forceSave>>
                       /\ saveTimer' = FALSE
                       /\ failures' = failures + 1
                       /\ lastOp' = Called("saveData", 0, NoRec, Throw("IOError"))
                  ELSE /\ writes' = 0
                       /\ lastWrite' = now
                       /\ forceSave' = FALSE
                       /\ saveTimer' = (~forceSave /\ ~noMoreSaves)
                       /\ failures' = failures
                       /\ lastOp' = Called("saveData", 0, NoRec, RetTrue)
       ELSE /\ saveTimer' = ~noMoreSaves
            /\ lastOp' = Called("saveData", 0, NoRec, RetUndefined)
            /\ UNCHANGED <<tables, disk, writes, lastWrite, forceSave, failures>>
    /\ UNCHANGED <<noMoreSaves, requestedShutdowns, exiting>>

\* gracefulShutdown(): a forced saveData whose callback counts the handle
\* out and schedules the exit when no shutdown is left.
GracefulShutdown(now, fp) ==
    /\ Count
    /\ ~exiting
    /\ fp # "none" => (failures < MaxFailures /\ SomethingToSave)
    /\ noMoreSaves' = TRUE
    /\ LET r == SaveTables(Tables, tables, disk, fp)
       IN /\ tables' = r.tables
          /\ disk' = r.disk
          /\ IF r.thrown
             THEN /\ UNCHANGED <<writes, lastWrite, exiting>>
                  /\ forceSave' = TRUE
                  /\ requestedShutdowns' = requestedShutdowns + 1
                  /\ failures' = failures + 1
                  /\ lastOp' = Called("gracefulShutdown", 0, NoRec, Throw("IOError"))
             ELSE /\ writes' = 0
                  /\ lastWrite' = now
                  /\ forceSave' = FALSE
                  /\ requestedShutdowns' = requestedShutdowns
                  /\ exiting' = (requestedShutdowns = 0)
                  /\ failures' = failures
                  /\ lastOp' = Called("gracefulShutdown", 0, NoRec, RetTrue)
    /\ UNCHANGED saveTimer

\* collectCache's test without the decrement branch: every entry is
\* evicted by the first pass.
CollectEntryAtOnce(entry) ==
    IF entry.st # "live" THEN entry ELSE NoCache

\* collectCache(): the cache timeout fires (it is always pending).
CollectEntry(entry) ==
    IF entry.st # "live" THEN entry
    ELSE IF entry.timesUsed = 0 THEN NoCache
    ELSE [entry EXCEPT !.timesUsed = @ - 1]

CollectCache ==
    /\ Count
    /\ \E t \in Tables : \E i \in Ids : tables[t].cache[i].st = "live"
    /\ tables' = [t \in Tables |->
                    [tables[t] EXCEPT !.cache = [i \in Ids |-> CollectEntry(@[i])]]]
    /\ lastOp' = Called("collectCache", 0, NoRec, RetUndefined)
    /\ UNCHANGED <<disk, writes, lastWrite, forceSave, noMoreSaves, saveTimer,
                   requestedShutdowns, exiting, failures>>

\* ------------------------------------------------------------------ open
\* The loop of initialize over the lines of the index file: each line
\* "id,pos,len" sets table.index[id]; a later line for the same id wins.
RECURSIVE ReadIndex(_, _, _)
ReadIndex(rows, k, index) ==
    IF k > Len(rows) THEN index
    ELSE ReadIndex(rows, k + 1,
             [index EXCEPT ![rows[k].id] = [pos |-> rows[k].pos, len |-> rows[k].len]])

\* initialize() for one directory under <dbpath>/tables: the table as the
\* new handle holds it.
LoadTable(files) ==
    [NewTable EXCEPT !.lastId = files.meta,
                     !.index = ReadIndex(files.index, 1, NewTable.index)]

\* Whether initialize() can read the directory: the index file and the
\* meta file are there (n-readlines and readFileSync throw otherwise).
Loadable(files) == files.dir => (files.indexExists /\ files.metaExists)

\* this.tables after the constructor has run on the directories dsk.
initialize(dsk) ==
    [t \in Tables |-> IF dsk[t].dir THEN LoadTable(dsk[t]) ELSE NoTable]

\* The process ends (exit or kill) and a new process opens the directory:
\* new Database(dbpath).  What was pending in memory is gone.
Reopen ==
    /\ Count
    /\ \E t \in Tables : disk[t].dir
    /\ IF \A t \in Tables : Loadable(disk[t])
       THEN /\ tables' = initialize(disk)
            /\ saveTimer' = TRUE
            /\ exiting' = FALSE
            /\ lastOp' = Called("new", 0, NoRec, RetTrue)
       ELSE /\ tables' = [t \in Tables |-> NoTable]
            /\ saveTimer' = FALSE
            /\ exiting' = TRUE
            /\ lastOp' = Called("new", 0, NoRec, Throw("IOError"))
    /\ writes' = 0
    /\ lastWrite' \in lastWrite..MaxTime
    /\ forceSave' = FALSE
    /\ noMoreSaves' = FALSE
    /\ requestedShutdowns' = 0
    /\ UNCHANGED <<disk, failures>>

\* The files of a table when the process dies inside saveData's loop, at
\* the statement fp: what the synchronous calls before fp did is on disk;
\* of what the loops appended to the two write streams, all or nothing has
\* reached the files (landed).
CrashFiles(table, files, fp, landed) ==
    IF landed THEN SaveFiles(table, files, fp)
    ELSE [dir |-> files.dir \/ Reached(fp, "mkdir"),
          db |-> IF Reached(fp, "rename") THEN files.dbnew ELSE files.db,
          dbExists |-> files.dbExists \/ Reached(fp, "open"),
          dbnew |-> IF Reached(fp, "rename") THEN <<>> ELSE files.dbnew,
          dbnewExists |-> IF Reached(fp, "rename") THEN FALSE
                          ELSE files.dbnewExists \/ Reached(fp, "mkdir"),
          index |-> IF Reached(fp, "index") THEN <<>> ELSE files.index,
          indexExists |-> files.indexExists \/ Reached(fp, "index"),
          meta |-> IF Reached(fp, "meta") THEN table.lastId ELSE files.meta,
          metaExists |-> files.metaExists \/ Reached(fp, "meta")]

\* The process is killed while saveData rewrites table t, then restarted.
CrashInSave(t, now, fp, landed) ==
    /\ Count
    /\ ~exiting
    /\ failures < MaxFailures
    /\ saveTimer
    /\ TimeToSave(now)
    /\ tables[t].exists /\ ~NothingToSave(tables[t])
    /\ LET dsk == [disk EXCEPT ![t] = CrashFiles(tables[t], disk[t], fp, landed)]
       IN /\ disk' = dsk
          /\ IF \A x \in Tables : Loadable(dsk[x])
             THEN /\ tables' = initialize(dsk)
                  /\ saveTimer' = TRUE
                  /\ exiting' = FALSE
                  /\ lastOp' = Called("crash", 0, NoRec, RetTrue)
             ELSE /\ tables' = [x \in Tables |-> NoTable]
                  /\ saveTimer' = FALSE
                  /\ exiting' = TRUE
                  /\ lastOp' = Called("crash", 0, NoRec, Throw("IOError"))
    /\ writes' = 0
    /\ lastWrite' = now
    /\ forceSave' = FALSE
    /\ noMoreSaves' = FALSE
    /\ requestedShutdowns' = 0
    /\ failures' = failures + 1

Next ==
    \/ \E t \in Tables, data \in InsertData : Insert(t, data)
    \/ \E t \in Tables, data \in UpdateData : UpdateNoTable(t, data)
    \/ \E t \in Tables, data \in UpdateData : Update(t, data)
    \/ \E t \in Tables, id \in Ids : RemoveNoTable(t, id)
    \/ \E t \in Tables, id \in Ids : Remove(t, id)
    \/ \E t \in Tables, start \in 0..MaxId : TruncateNoTable(t, start)
    \/ \E t \in Tables, start \in 0..MaxId : TruncateOutOfRange(t, start)
    \/ \E t \in Tables, start \in 0..MaxId : Truncate(t, start)
    \/ \E t \in Tables, id \in Ids : GetNoTable(t, id)
    \/ \E t \in Tables, id \in Ids : Get(t, id)
    \/ \E t \in Tables : GetAllNoTable(t)
    \/ \E t \in Tables : GetAll(t)
    \/ \E now \in lastWrite..MaxTime, fp \in FailPoints \cup {"none"} : SaveData(now, fp)
    \/ \E now \in lastWrite..MaxTime, fp \in FailPoints \cup {"none"} :
          GracefulShutdown(now, fp)
    \/ CollectCache
    \/ Reopen
    \/ \E t \in Tables, now \in lastWrite..MaxTime, fp \in {"rename", "meta"},
          landed \in BOOLEAN : CrashInSave(t, now, fp, landed)

Spec == Init /\ [][Next]_vars

\* The directory an earlier process left behind: it inserted one record
\* into a new table, flushed and ended.
StoredDisk(data) ==
    SaveTables(Tables,
               [t \in Tables |->
                   [NewTable EXCEPT !.lastId = 1,
                                    !.inserts = <<[data EXCEPT !.id = 1]>>]],
               [t \in Tables |-> NoFiles], "none").disk

\* new Database(dbpath) on a directory that does not exist yet, or on one an
\* earlier process left behind.
InitStored ==
    /\ \/ disk = [t \in Tables |-> NoFiles]
       \/ \E data \in InsertData : disk = StoredDisk(data)
    /\ tables = initialize(disk)
    /\ writes = 0
    /\ lastWrite = 0
    /\ forceSave = FALSE
    /\ noMoreSaves = FALSE
    /\ saveTimer = TRUE
    /\ requestedShutdowns = 0
    /\ exiting = FALSE
    /\ failures = 0
    /\ steps = 0
    /\ lastOp = Called("new", 0, NoRec, RetUndefined)
    /\ handles = [h \in Handles |-> NewHandle]
    /\ microtasks = <<>>
    /\ exited = FALSE

\* A process that only reads: get, getAll, the two timeouts, shutdown and
\* reopening; no insert, update, remove or truncate and no fs failure.
ReaderNext ==
    \/ \E t \in Tables, id \in Ids : GetNoTable(t, id)
    \/ \E t \in Tables, id \in Ids : Get(t, id)
    \/ \E t \in Tables : GetAllNoTable(t)
    \/ \E t \in Tables : GetAll(t)
    \/ \E now \in lastWrite..MaxTime : SaveData(now, "none")
    \/ \E now \in lastWrite..MaxTime : GracefulShutdown(now, "none")
    \/ CollectCache
    \/ Reopen

ReaderSpec == InitStored /\ [][ReaderNext]_vars

\* A handle opened on such a directory that is written to, read and flushed,
\* without I/O failure.
WriterNext ==
    \/ \E t \in Tables, data \in InsertData : Insert(t, data)
    \/ \E t \in Tables, data \in UpdateData : Update(t, data)
    \/ \E t \in Tables, id \in Ids : Remove(t, id)
    \/ \E t \in Tables, start \in 0..MaxId : TruncateOutOfRange(t, start)
    \/ \E t \in Tables, start \in 0..MaxId : Truncate(t, start)
    \/ \E t \in Tables, id \in Ids : Get(t, id)
    \/ \E t \in Tables : GetAll(t)
    \/ \E now \in lastWrite..MaxTime : SaveData(now, "none")
    \/ \E now \in lastWrite..MaxTime : GracefulShutdown(now, "none")

WriterSpec == InitStored /\ [][WriterNext]_vars

\* A handle whose timer keeps firing while the clock runs on: whatever the
\* program calls in between, there comes a tick at which more than
\* deltaTimeToSave has passed since the last flush (a tick at MaxTime), and
\* the calls leave room for it.  No fs call fails.
Room == steps < MaxSteps - 1

TimerNext ==
    \/ \E t \in Tables, data \in InsertData :
          Room /\ data.id = Undefined /\ Insert(t, data)
    \/ \E t \in Tables, data \in UpdateData : Room /\ Update(t, data)
    \/ \E t \in Tables, id \in Ids : Room /\ Remove(t, id)
    \/ \E t \in Tables, start \in 0..MaxId : Room /\ Truncate(t, start)
    \/ \E now \in lastWrite..MaxTime : Room /\ SaveData(now, "none")
    \/ \E now \in lastWrite..MaxTime : Room /\ GracefulShutdown(now, "none")
    \/ SaveData(MaxTime, "none")

\* Timeouts that are set do fire.
TimerSpec == Init /\ [][TimerNext]_vars /\ WF_vars(SaveData(MaxTime, "none"))

\* ----------------------------------------- several handles, one process
\* The shutdown of a process that holds several Database objects.  Each
\* handle is reduced to its write counter, its two flags and its saveData
\* timeout; requestedShutdowns, exiting and failures are the variables of
\* above.  What the single modelled handle holds stays as constructed.
oneHandleVars ==
    <<tables, disk, writes, lastWrite, forceSave, noMoreSaves, saveTimer,
      steps, lastOp>>

\* The process as the statements below see it.
Process ==
    [handles |-> handles, requestedShutdowns |-> requestedShutdowns,
     microtasks |-> microtasks, failures |-> failures]

\* gracefulShutdown() on handle h, up to the return of saveData(callback):
\* the counter goes up, both flags are set and, forceSave being set, the
\* executor of the promise runs at once.  ok: no fs call throws, the promise
\* is resolved and its .then handler, which holds the callback, is queued;
\* otherwise the promise is rejected and .catch has nothing to do but log.
gracefulShutdown(st, h, ok) ==
    [handles |-> [st.handles EXCEPT ![h] =
                     [writes |-> IF ok THEN 0 ELSE @.writes,
                      forceSave |-> TRUE,
                      noMoreSaves |-> TRUE,
                      saveTimer |-> @.saveTimer,
                      flushed |-> @.flushed \/ ok]],
     requestedShutdowns |-> st.requestedShutdowns + 1,
     microtasks |-> IF ok
                    THEN Append(st.microtasks, [h |-> h, callback |-> TRUE])
                    ELSE st.microtasks,
     failures |-> st.failures + (IF ok THEN 0 ELSE 1)]

\* The listeners every constructor registered run one after the other, in
\* the order of construction, before any .then handler.
RECURSIVE emit(_, _, _)
emit(st, k, oks) ==
    IF k > Len(HandleSeq) THEN st
    ELSE emit(gracefulShutdown(st, HandleSeq[k], oks[HandleSeq[k]]), k + 1, oks)

\* A flush can throw only where it has something to write.
MayThrow(h) == failures < MaxFailures /\ handles[h].writes > 0

\* SIGINT, SIGQUIT, SIGTERM, SIGABRT or SIGHUP is delivered.
Signal ==
    /\ ~exited
    /\ microtasks = <<>>
    /\ \E oks \in [Handles -> BOOLEAN] :
          /\ \A h \in Handles : ~oks[h] => MayThrow(h)
          /\ Cardinality({h \in Handles : ~oks[h]}) <= MaxFailures - failures
          /\ LET st == emit(Process, 1, oks)
             IN /\ handles' = st.handles
                /\ requestedShutdowns' = st.requestedShutdowns
                /\ microtasks' = st.microtasks
                /\ failures' = st.failures
    /\ UNCHANGED <<exiting, exited>>
    /\ UNCHANGED oneHandleVars

\* The program calls db.gracefulShutdown() on one of its handles.
ShutdownCall(h, ok) ==
    /\ ~exited
    /\ microtasks = <<>>
    /\ ~ok => MayThrow(h)
    /\ LET st == gracefulShutdown(Process, h, ok)
       IN /\ handles' = st.handles
          /\ requestedShutdowns' = st.requestedShutdowns
          /\ microtasks' = st.microtasks
          /\ failures' = st.failures
    /\ UNCHANGED <<exiting, exited>>
    /\ UNCHANGED oneHandleVars

\* insert, update, remove or truncate on handle h: this.writes++.
Write(h) ==
    /\ ~exited
    /\ microtasks = <<>>
    /\ handles[h].writes <= WritesToSave
    /\ handles' = [handles EXCEPT ![h].writes = @ + 1]
    /\ UNCHANGED <<requestedShutdowns, microtasks, failures, exiting, exited>>
    /\ UNCHANGED oneHandleVars

\* The saveData timeout of handle h fires: saveData() without a callback.
\* due: Date.now() - this.lastWrite > this.deltaTimeToSave.
SaveTick(h, due, ok) ==
    /\ ~exited
    /\ microtasks = <<>>
    /\ handles[h].saveTimer
    /\ ~ok => MayThrow(h)
    /\ IF \/ handles[h].writes > WritesToSave
          \/ (handles[h].writes > 0 /\ due)
          \/ handles[h].forceSave
       THEN IF ok
            THEN /\ handles' = [handles EXCEPT
                                   ![h].writes = 0,
                                   ![h].saveTimer = FALSE,
                                   ![h].flushed = @ \/ handles[h].forceSave]
                 /\ microtasks' = <<[h |-> h, callback |-> FALSE]>>
                 /\ failures' = failures
            ELSE /\ handles' = [handles EXCEPT ![h].saveTimer = FALSE]
                 /\ failures' = failures + 1
                 /\ UNCHANGED microtasks
       ELSE /\ ok
            /\ handles' = [handles EXCEPT ![h].saveTimer = ~handles[h].noMoreSaves]
            /\ UNCHANGED <<microtasks, failures>>
    /\ UNCHANGED <<requestedShutdowns, exiting, exited>>
    /\ UNCHANGED oneHandleVars

\* The .then handler without the test of noMoreSaves.
RunThenReschedule ==
    /\ ~exited
    /\ microtasks # <<>>
    /\ LET h == Head(microtasks).h
       IN handles' = [handles EXCEPT
              ![h].forceSave = FALSE,
              ![h].saveTimer = IF ~handles[h].forceSave THEN TRUE ELSE @]
    /\ microtasks' = Tail(microtasks)
    /\ IF Head(microtasks).callback
       THEN /\ requestedShutdowns' = requestedShutdowns - 1
            /\ exiting' = (exiting \/ requestedShutdowns - 1 = 0)
       ELSE UNCHANGED <<requestedShutdowns, exiting>>
    /\ UNCHANGED <<failures, exited>>
    /\ UNCHANGED oneHandleVars

\* The .then handler of a resolved saveData promise runs, and with it the
\* callback of gracefulShutdown if there is one.
RunThen ==
    /\ ~exited
    /\ microtasks # <<>>
    /\ LET h == Head(microtasks).h
       IN handles' = [handles EXCEPT
              ![h].forceSave = FALSE,
              ![h].saveTimer = IF ~handles[h].forceSave /\ ~handles[h].noMoreSaves
                               THEN TRUE ELSE @]
    /\ microtasks' = Tail(microtasks)
    /\ IF Head(microtasks).callback
       THEN /\ requestedShutdowns' = requestedShutdowns - 1
            /\ exiting' = (exiting \/ requestedShutdowns - 1 = 0)
       ELSE UNCHANGED <<requestedShutdowns, exiting>>
    /\ UNCHANGED <<failures, exited>>
    /\ UNCHANGED oneHandleVars

\* The delayed exit the callback scheduled: exeunt(0).
Exit ==
    /\ exiting
    /\ ~exited
    /\ microtasks = <<>>
    /\ exited' = TRUE
    /\ UNCHANGED <<handles, requestedShutdowns, microtasks, failures, exiting>>
    /\ UNCHANGED oneHandleVars

ShutdownNext ==
    \/ Signal
    \/ \E h \in Handles, ok \in BOOLEAN : ShutdownCall(h, ok)
    \/ \E h \in Handles : Write(h)
    \/ \E h \in Handles, due \in BOOLEAN, ok \in BOOLEAN : SaveTick(h, due, ok)
    \/ RunThen
    \/ Exit

\* Handlers of resolved promises and timeouts that are due do run.
ShutdownSpec ==
    /\ Init
    /\ [][ShutdownNext]_vars
    /\ WF_vars(RunThen)
    /\ SF_vars(Exit)
    /\ \A h \in Handles : SF_vars(\E due \in BOOLEAN, ok \in BOOLEAN : SaveTick(h, due, ok))

\* ----------------------------------------------------------- properties
\* A saveData or gracefulShutdown step that rewrote the tables and resolved.
Flushed ==
    \E now \in lastWrite..MaxTime :
        \/ SaveData(now, "none") /\ TimeToSave(now)
        \/ GracefulShutdown(now, "none")

\* The same with the flush forced: gracefulShutdown, or a saveData that
\* finds forceSave set.
ForcedFlushed ==
    \E now \in lastWrite..MaxTime :
        \/ SaveData(now, "none") /\ forceSave
        \/ GracefulShutdown(now, "none")

\* What a caller gets from get(t, id) in the current state.
GetNow(t, id) == get(tables[t], disk[t], Num(id)).ret

HasId(arr, id) == \E k \in 1..Len(arr) : arr[k].id = id
PendingRemoval(table, id) == \E k \in 1..Len(table.removals) : table.removals[k] = id

\* The id has a record on disk that get returns and nothing pending.
StoredOnly(t, id) ==
    /\ tables[t].exists
    /\ tables[t].index[id] # NoEntry
    /\ ~HasId(tables[t].inserts, id)
    /\ ~HasId(tables[t].updates, id)
    /\ ~PendingRemoval(tables[t], id)
    /\ GetNow(t, id).kind = "record"

\* No I/O failure and no crash has happened up to and in this step.
NoFailure == failures' = 0

\* C1: insert returns lastId + 1 and stores it as lastId (1 on a table that
\* did not exist); update, remove, get, getAll, saveData, gracefulShutdown
\* and collectCache leave lastId as it is; a truncate(N) that returns true
\* sets lastId to N, one that throws leaves it; so on one handle lastId
\* goes down in a truncate only and insert's ids only grow until then.
C1_LastIdStep ==
    \A t \in Tables :
        /\ lastOp'.op = "insert" =>
              /\ tables'[t].lastId = tables[t].lastId + 1
              /\ lastOp'.ret = RetNum(tables[t].lastId + 1)
              /\ (~tables[t].exists => lastOp'.ret = RetNum(1))
        /\ lastOp'.op \in {"update", "remove", "get", "getAll", "saveData",
                           "gracefulShutdown", "collectCache"} =>
              tables'[t].lastId = tables[t].lastId
        /\ lastOp'.op = "truncate" =>
              IF lastOp'.ret = RetTrue
              THEN tables'[t].lastId = lastOp'.id /\ lastOp'.id <= tables[t].lastId
              ELSE tables'[t].lastId = tables[t].lastId
        /\ (lastOp'.op \notin {"new", "crash"}
               /\ tables'[t].lastId < tables[t].lastId) =>
              lastOp'.op = "truncate"
C1_InsertIds == [][steps' # steps => C1_LastIdStep]_vars

\* An insert that follows truncate(t, 0) on a table whose lastId was 1 or
\* more returns 1 again.
C1_Witness ==
    \E t \in Tables :
        /\ lastOp.op = "insert"
        /\ lastOp.ret = RetNum(1)
        /\ tables[t].truncate = 0
        /\ tables[t].lastId = 1

\* C2: insert(table, r) returning id, followed at once by get(table, id),
\* returns r with its fields unchanged plus the id, from the pending state:
\* the cache is left as it was and nothing is read from disk.  (Stated for
\* runs without I/O failure.)
C2_InsertThenGet ==
    [][\A t \in Tables, data \in InsertData :
          (NoFailure /\ Insert(t, data)) =>
              LET r == get(tables'[t], disk'[t], Num(lastOp'.ret.n))
              IN /\ r.ret = RetRec([data EXCEPT !.id = lastOp'.ret.n])
                 /\ r.cache = tables'[t].cache]_vars

\* C3: for every id for which get returns a record right before a forced
\* flush that succeeds, get right after the flush returns an equal record.
\* (Stated for runs without I/O failure.)
C3_GetAcrossForcedFlush ==
    [][(NoFailure /\ ForcedFlushed) =>
          \A t \in Tables, id \in Ids :
              (tables[t].exists /\ GetNow(t, id).kind = "record") =>
                  get(tables'[t], disk'[t], Num(id)).ret = GetNow(t, id)]_vars

\* C4: after remove(table, id) has returned true, get(table, id) returns
\* null, while the removal is pending and after the flush that drains it,
\* for an id that was a pending insert, carried a pending update or had a
\* record on disk.  (Stated for runs without I/O failure.)
C4_RemoveThenGet ==
    [][\A t \in Tables, id \in Ids :
          /\ (/\ NoFailure
              /\ Remove(t, id)
              /\ \/ HasId(tables[t].inserts, id)
                 \/ HasId(tables[t].updates, id)
                 \/ StoredOnly(t, id)) =>
                get(tables'[t], disk'[t], Num(id)).ret = RetNull
          /\ (/\ NoFailure
              /\ Flushed
              /\ tables[t].exists
              /\ tables[t].index[id] # NoEntry
              /\ PendingRemoval(tables[t], id)) =>
                get(tables'[t], disk'[t], Num(id)).ret = RetNull]_vars

\* The ids getAll is to list: the ids of the index that are neither
\* pending removal nor above the truncate watermark, and the pending inserts.
LiveIds(table) ==
    {i \in Ids : /\ table.index[i] # NoEntry
                 /\ ~PendingRemoval(table, i)
                 /\ ~(table.truncate # NoTruncate /\ i > table.truncate)}
        \cup {table.inserts[k].id : k \in 1..Len(table.inserts)}

\* C5: getAll(table) returns one record for each live id and nothing
\* else, each as get returns it.  (Stated for runs without I/O failure.)
C5_GetAllLiveIds ==
    [][\A t \in Tables :
          (NoFailure /\ GetAll(t)) =>
              LET l == lastOp'.ret.list
              IN /\ lastOp'.ret.kind = "list"
                 /\ Len(l) = Cardinality(LiveIds(tables[t]))
                 /\ \A k \in 1..Len(l) : l[k].kind = "record"
                 /\ {l[k].rec.id : k \in 1..Len(l)} = LiveIds(tables[t])
                 /\ \A k \in 1..Len(l) : l[k] = GetNow(t, l[k].rec.id)]_vars

\* No record with an id above n is in what getAll returned.
NoneAbove(ret, n) ==
    \A k \in 1..Len(ret.list) :
        ~(ret.list[k].kind = "record" /\ ret.list[k].rec.id > n)

\* C6: after truncate(table, N) has returned true, getAll(table) holds no
\* record whose id was above N, before the next flush and after it (no
\* insert in between).  (Stated for runs without I/O failure.)
C6_TruncateThenGetAll ==
    [][\A t \in Tables, start \in 0..MaxId :
          /\ (NoFailure /\ Truncate(t, start)) =>
                NoneAbove(getAllLoop(tables'[t], disk'[t], 1, <<>>).ret, start)
          /\ (/\ NoFailure
              /\ Flushed
              /\ tables[t].exists
              /\ tables[t].truncate = start
              /\ tables[t].lastId = start) =>
                NoneAbove(getAllLoop(tables'[t], disk'[t], 1, <<>>).ret, start)]_vars

\* C7: right after update(table, r) has returned true, get(table, r.id)
\* returns a record in which every field given in r has r's value, also
\* when updates of the id are pending already.  (Stated for an id that
\* has a record on disk, in runs without I/O failure.)
C7_UpdateThenGet ==
    [][\A t \in Tables, data \in UpdateData :
          (/\ NoFailure
           /\ Update(t, data)
           /\ tables[t].index[data.id] # NoEntry
           /\ ~HasId(tables[t].inserts, data.id)) =>
              LET r == get(tables'[t], disk'[t], Num(data.id)).ret
              IN /\ r.kind = "record"
                 /\ \A f \in FieldNames :
                       data[f] # Undefined => r.rec[f] = data[f]]_vars

\* C8: update(table, r) with r.id a pending insert changes that insert in
\* place: the fields r names take r's values, the others keep theirs,
\* table.updates is left as it is, and get(table, r.id) returns the
\* merged record.  (Stated for runs without I/O failure.)
C8_UpdatePendingInsert ==
    [][\A t \in Tables, data \in UpdateData :
          (NoFailure /\ Update(t, data) /\ HasId(tables[t].inserts, data.id)) =>
              LET k == FindIndex(tables[t].inserts, "object", Num(data.id))
                  old == tables[t].inserts[k]
                  new == tables'[t].inserts[k]
              IN /\ Len(tables'[t].inserts) = Len(tables[t].inserts)
                 /\ \A j \in 1..Len(tables[t].inserts) :
                       j # k => tables'[t].inserts[j] = tables[t].inserts[j]
                 /\ new.id = old.id
                 /\ \A f \in FieldNames :
                       new[f] = IF data[f] # Undefined THEN data[f] ELSE old[f]
                 /\ tables'[t].updates = tables[t].updates
                 /\ get(tables'[t], disk'[t], Num(data.id)).ret = RetRec(new)]_vars

\* The record prior with the fields that data names replaced.
Merged(prior, data) ==
    [id |-> prior.id,
     a |-> IF data.a # Undefined THEN data.a ELSE prior.a,
     b |-> IF data.b # Undefined THEN data.b ELSE prior.b]

\* C9: an update that names some fields of a record stored on disk leaves
\* the other fields: get before the flush returns the prior record with
\* the named fields replaced, and so does get after the flush has written
\* the update and the record is read from disk again.  (Stated for runs
\* without I/O failure.)
C9_PartialUpdateStored ==
    [][\A t \in Tables, data \in UpdateData :
          /\ (NoFailure /\ Update(t, data) /\ StoredOnly(t, data.id)) =>
                get(tables'[t], disk'[t], Num(data.id)).ret
                    = RetRec(Merged(GetNow(t, data.id).rec, data))
          /\ (/\ NoFailure
              /\ Flushed
              /\ tables[t].exists
              /\ tables[t].index[data.id] # NoEntry
              /\ tables[t].updates = <<data>>
              /\ tables[t].truncate = NoTruncate
              /\ ~PendingRemoval(tables[t], data.id)) =>
                LET e == ReadIndex(disk'[t].index, 1, NewTable.index)[data.id]
                    old == JSONparse(ReadSync(disk[t].db, tables[t].index[data.id].pos,
                                              tables[t].index[data.id].len))
                IN /\ e # NoEntry
                   /\ JSONparse(ReadSync(disk'[t].db, e.pos, e.len))
                          = Merged(old, data)]_vars

\* The log, index and meta files of every table are as before the step.
FilesUntouched ==
    \A t \in Tables :
        /\ disk'[t].db = disk[t].db
        /\ disk'[t].dbExists = disk[t].dbExists
        /\ disk'[t].index = disk[t].index
        /\ disk'[t].indexExists = disk[t].indexExists
        /\ disk'[t].meta = disk[t].meta
        /\ disk'[t].metaExists = disk[t].metaExists

\* C10: a flush that is aborted, by an I/O failure or by the death of the
\* process, after the new log has been written and before the rename
\* leaves the log, the index and the meta file of the table as they were,
\* and a handle opened on the directory afterwards holds what one opened
\* before the flush would have held.
C10_AbortBeforeRename ==
    [][\A now \in 0..MaxTime :
          /\ (SaveData(now, "rename") \/ GracefulShutdown(now, "rename")) =>
                FilesUntouched
          /\ \A t \in Tables, landed \in BOOLEAN :
                CrashInSave(t, now, "rename", landed) =>
                    /\ FilesUntouched
                    /\ (\A x \in Tables : Loadable(disk[x])) =>
                          tables' = initialize(disk)]_vars

\* A saveData or gracefulShutdown step whose rewrite threw before the new
\* log replaced the old one (at mkdir, at either open or at the rename).
FailedBeforeSwap ==
    \E now \in lastWrite..MaxTime, fp \in FailPoints \ {"meta"} :
        SaveData(now, fp) \/ GracefulShutdown(now, fp)

\* C11: a flush that fails while it rewrites a table leaves the pending
\* inserts, updates and removals of every table, its truncate value and its
\* index, and the handle's write counter, as they were before the flush.
C11_FailedFlushKeepsMemory ==
    [][FailedBeforeSwap =>
          /\ writes' = writes
          /\ \A t \in Tables :
                /\ tables'[t].inserts = tables[t].inserts
                /\ tables'[t].updates = tables[t].updates
                /\ tables'[t].removals = tables[t].removals
                /\ tables'[t].truncate = tables[t].truncate
                /\ tables'[t].index = tables[t].index]_vars

\* C12: after a saveData timeout whose flush failed, another saveData
\* timeout is pending.
C12_FailedFlushReschedules ==
    [][(\E now \in lastWrite..MaxTime, fp \in FailPoints : SaveData(now, fp))
          => saveTimer']_vars

\* What getAll returns on a table held in memory as `table`.
GetAllOf(table, files) == getAllLoop(table, files, 1, <<>>).ret

\* C13: after a flush that rewrote a table and resolved, a handle opened on
\* the same directory holds the same index for that table, and get and
\* getAll return the same on both handles.
C13_FreshHandleSameStore ==
    [][(NoFailure /\ Flushed) =>
          \A t \in Tables :
              (tables[t].exists /\ ~NothingToSave(tables[t])) =>
                  LET fresh == initialize(disk')[t]
                  IN /\ fresh.index = tables'[t].index
                     /\ \A id \in Ids :
                           get(fresh, disk'[t], Num(id)).ret
                               = get(tables'[t], disk'[t], Num(id)).ret
                     /\ GetAllOf(fresh, disk'[t]) = GetAllOf(tables'[t], disk'[t])]_vars

\* C14: the counter of requested shutdowns is never negative, and (no fs
\* call having thrown) the process exits only when it is zero and every open
\* handle has had a forced flush complete.
C14_ExitAfterAllFlushed ==
    /\ requestedShutdowns >= 0
    /\ (exited /\ failures = 0) =>
          /\ requestedShutdowns = 0
          /\ \A h \in Handles : handles[h].flushed

\* C15: once shutdown has been requested on a handle, a forced flush of
\* that handle completes and the process exits.
C15_ShutdownExits ==
    \A h \in Handles : handles[h].noMoreSaves ~> (handles[h].flushed /\ exited)

\* C16: when noMoreSaves is already set on every handle, a further signal
\* or gracefulShutdown call changes nothing: no flush is started and the
\* counter stays as it is.
C16_SecondSignalNoOp ==
    [][((\A h \in Handles : handles[h].noMoreSaves)
          /\ (Signal \/ \E h \in Handles, ok \in BOOLEAN : ShutdownCall(h, ok)))
             => UNCHANGED <<handles, requestedShutdowns, microtasks>>]_vars

\* get(t, id) goes to the log: nothing pending for the id, no cache entry,
\* and the record is read and parsed.
ReadsDisk(t, id) ==
    /\ Get(t, id)
    /\ tables[t].cache[id].st # "live"
    /\ ~HasId(tables[t].updates, id)
    /\ ~HasId(tables[t].inserts, id)
    /\ ~PendingRemoval(tables[t], id)
    /\ lastOp'.ret.kind = "record"

\* C17: a get that reads the log creates the cache entry with usage 1; a
\* collectCache pass takes one from the usage of every entry and evicts the
\* entries whose usage is 0, so an entry with usage u that is not accessed
\* survives u passes and is evicted by the next one (usage 1: survives the
\* first pass, evicted by the second), after which a get reads the log again.
C17_CacheDecay ==
    [][/\ \A t \in Tables, id \in Ids :
             ReadsDisk(t, id) =>
                 tables'[t].cache[id] =
                     [st |-> "live", item |-> lastOp'.ret.rec, timesUsed |-> 1]
       /\ CollectCache =>
             \A t \in Tables, id \in Ids :
                 LET entry == tables[t].cache[id]
                 IN /\ (entry.st = "live" /\ entry.timesUsed > 0) =>
                          tables'[t].cache[id] =
                              [entry EXCEPT !.timesUsed = entry.timesUsed - 1]
                    /\ (entry.st = "live" /\ entry.timesUsed = 0) =>
                          /\ tables'[t].cache[id].st # "live"
                          /\ get(tables'[t], disk'[t], Num(id)).cache[id].timesUsed = 1]_vars

\* The second pass after a get from the log has just evicted the entry.
C17_Witness ==
    /\ steps = 3
    /\ lastOp.op = "collectCache"
    /\ \E t \in Tables, id \in Ids :
          /\ tables[t].index[id] # NoEntry
          /\ tables[t].cache[id].st # "live"
          /\ get(tables[t], disk[t], Num(id)).cache[id].timesUsed = 1

\* saveData's condition as the claim words it, for a tick at time now.
Trigger(now) ==
    \/ writes > WritesToSave
    \/ (writes > 0 /\ now - lastWrite > DeltaTimeToSave)
    \/ forceSave

C19_InsertOrIndexed ==
    failures = 0 =>
        \A t \in Tables, id \in Ids :
            ~(HasId(tables[t].inserts, id) /\ tables[t].index[id] # NoEntry)

\* A call of update, remove, truncate, get or getAll on table t.
CallOn(t) ==
    \/ \E data \in UpdateData : UpdateNoTable(t, data) \/ Update(t, data)
    \/ \E id \in Ids : RemoveNoTable(t, id) \/ Remove(t, id)
    \/ \E start \in 0..MaxId :
          TruncateNoTable(t, start) \/ TruncateOutOfRange(t, start) \/ Truncate(t, start)
    \/ \E id \in Ids : GetNoTable(t, id) \/ Get(t, id)
    \/ GetAllNoTable(t) \/ GetAll(t)

\* C20: on a table that does not exist, update, remove, truncate, get and
\* getAll throw an Error and change neither the tables (buffers, index,
\* cache, lastId) nor the files nor the write counter; insert creates the
\* table and returns 1.
C20_NoTableThrows ==
    [][\A t \in Tables :
          ~tables[t].exists =>
              /\ CallOn(t) =>
                    /\ lastOp'.ret = Throw("Error")
                    /\ UNCHANGED <<tables, disk, writes, lastWrite, forceSave,
                                   noMoreSaves, saveTimer, requestedShutdowns>>
              /\ \A data \in InsertData :
                    Insert(t, data) =>
                        /\ lastOp'.ret = RetNum(1)
                        /\ writes' = writes + 1
                        /\ tables'[t] =
                              [NewTable EXCEPT !.lastId = 1,
                                  !.inserts = <<[data EXCEPT !.id = 1]>>]]_vars

\* A call on a missing table has just thrown and the table is still missing.
C20_Witness ==
    /\ lastOp.op \in {"update", "remove", "truncate", "get", "getAll"}
    /\ lastOp.ret = Throw("Error")
    /\ \A t \in Tables : ~tables[t].exists
    /\ writes = 0

\* C21: truncate on an existing table with start above lastId throws an
\* Error and leaves the table (lastId, truncate, pending arrays, cache) and
\* the write counter as they are; with start <= lastId it returns true and
\* sets truncate and lastId to start.
C21_TruncateRange ==
    [][\A t \in Tables, start \in 0..MaxId :
          (tables[t].exists
             /\ (TruncateOutOfRange(t, start) \/ Truncate(t, start))) =>
                IF start > tables[t].lastId
                THEN /\ lastOp'.ret = Throw("Error")
                     /\ UNCHANGED <<tables, disk, writes>>
                ELSE /\ lastOp'.ret = RetTrue
                     /\ tables'[t].truncate = start
                     /\ tables'[t].lastId = start]_vars

\* A truncate beyond lastId has just thrown on a table with a pending insert.
C21_Witness ==
    /\ lastOp.op = "truncate"
    /\ lastOp.ret = Throw("Error")
    /\ \E t \in Tables :
          /\ tables[t].exists
          /\ lastOp.id > tables[t].lastId
          /\ Len(tables[t].inserts) > 0
          /\ tables[t].truncate = NoTruncate

\* lastId of table t as insert finds it after createTable.
LastIdOf(t) == IF tables[t].exists THEN tables[t].lastId ELSE 0

C23_TruncatePurgesPending ==
    [][\A t \in Tables, start \in 0..MaxId :
          Truncate(t, start) =>
              LET KeptItem(item) == item.id <= start
                  KeptId(id) == id <= start
              IN /\ tables'[t].inserts = SelectSeq(tables[t].inserts, KeptItem)
                 /\ tables'[t].updates = SelectSeq(tables[t].updates, KeptItem)
                 /\ tables'[t].removals = SelectSeq(tables[t].removals, KeptId)]_vars

\* The ids and the bytes a flush of the table is to carry over from the old
\* log, for the index keys from id on: every id that is neither pending
\* removal nor above the watermark, with its earliest pending update
\* serialized if there is one and the bytes of its old span otherwise.
RECURSIVE ToCarry(_, _, _)
ToCarry(table, oldDb, id) ==
    IF id > MaxId THEN [ids |-> <<>>, out |-> <<>>]
    ELSE LET rest == ToCarry(table, oldDb, id + 1)
             updateIx == FindIndex(table.updates, "object", Num(id))
             bytes == IF updateIx # NotFound
                      THEN Utf8(JSONstringify(table.updates[updateIx]))
                      ELSE ReadSync(oldDb, table.index[id].pos, table.index[id].len)
         IN IF \/ table.index[id] = NoEntry
               \/ PendingRemoval(table, id)
               \/ (table.truncate # NoTruncate /\ id > table.truncate)
            THEN rest
            ELSE [ids |-> <<id>> \o rest.ids, out |-> bytes \o rest.out]

\* The ids and the bytes of the pending inserts from position ix on.
RECURSIVE ToInsert(_, _)
ToInsert(inserts, ix) ==
    IF ix > Len(inserts) THEN [ids |-> <<>>, out |-> <<>>]
    ELSE LET rest == ToInsert(inserts, ix + 1)
         IN [ids |-> <<inserts[ix].id>> \o rest.ids,
             out |-> Utf8(JSONstringify(inserts[ix])) \o rest.out]

\* C24: a successful flush of a table that has something to save leaves a
\* log and an index file that hold exactly the carried-over ids of the old
\* index (not pending removal, not above the watermark; the pending update
\* where there is one, the old span otherwise) followed by the pending
\* inserts; removed and truncated ids have no row and no bytes.  (Stated
\* for runs without I/O failure.)
C24_FlushContents ==
    [][(lastOp'.op \in {"saveData", "gracefulShutdown"} /\ NoFailure /\ Flushed) =>
          \A t \in Tables :
              (tables[t].exists /\ ~NothingToSave(tables[t])) =>
                  LET carry == ToCarry(tables[t], disk[t].db, 1)
                      ins == ToInsert(tables[t].inserts, 1)
                  IN /\ [k \in 1..Len(disk'[t].index) |-> disk'[t].index[k].id]
                            = carry.ids \o ins.ids
                     /\ disk'[t].db = carry.out \o ins.out]_vars

\* The rows tile bytes 0 .. size-1: each starts where the one before ends,
\* the first at 0, the last ends at size.
RECURSIVE Tiles(_, _, _)
Tiles(rows, k, offs) ==
    IF k > Len(rows) THEN TRUE
    ELSE /\ rows[k].pos = offs
         /\ rows[k].len > 0
         /\ Tiles(rows, k + 1, offs + rows[k].len)
SpanEnd(rows) == IF rows = <<>> THEN 0 ELSE rows[Len(rows)].pos + rows[Len(rows)].len

\* C25: right after a successful flush of a table the rows of its index
\* have distinct ids and spans that tile the new log from offset 0 to its
\* end without gap or overlap, and the last rows are the pending inserts in
\* insertion order.  (Stated for runs without I/O failure.)
C25_SpansTileLog ==
    [][(lastOp'.op \in {"saveData", "gracefulShutdown"} /\ NoFailure /\ Flushed) =>
          \A t \in Tables :
              (tables[t].exists /\ ~NothingToSave(tables[t])) =>
                  LET rows == disk'[t].index
                      n == Len(rows)
                      m == Len(tables[t].inserts)
                  IN /\ \A j, k \in 1..n : rows[j].id = rows[k].id => j = k
                     /\ Tiles(rows, 1, 0)
                     /\ SpanEnd(rows) = Len(disk'[t].db)
                     /\ n >= m
                     /\ \A k \in 1..m : rows[n - m + k].id = tables[t].inserts[k].id]_vars

\* A pending update whose id has neither an index entry nor a pending
\* insert.
OrphanUpdate(table, id) ==
    /\ table.exists
    /\ HasId(table.updates, id)
    /\ table.index[id] = NoEntry
    /\ ~HasId(table.inserts, id)

\* update of an id without index entry and pending insert returns true and
\* appends the record to the pending updates.
OrphanAccepted ==
    \A t \in Tables, data \in UpdateData :
        (/\ lastOp'.op = "update"
         /\ tables[t].exists
         /\ tables[t].index[data.id] = NoEntry
         /\ ~HasId(tables[t].inserts, data.id)
         /\ Update(t, data)) =>
            /\ lastOp'.ret = RetTrue
            /\ tables'[t].updates = Append(tables[t].updates, data)

HasRow(files, id) == \E k \in 1..Len(files.index) : files.index[k].id = id

\* C26 as claimed: an update of an id that has no index entry and no
\* pending insert is accepted, and the next successful flush gives the id
\* an index entry and a record in the log.
C26_OrphanUpdateFlushed ==
    [][/\ OrphanAccepted
       /\ (lastOp'.op \in {"saveData", "gracefulShutdown"} /\ NoFailure /\ Flushed) =>
             \A t \in Tables, id \in Ids :
                 OrphanUpdate(tables[t], id) =>
                     /\ HasRow(disk'[t], id)
                     /\ tables'[t].index[id] # NoEntry]_vars

\* C26: an update of an id that has no index entry and no pending insert is
\* accepted, and the next successful flush drops it: the id gets no index
\* entry and no row in the index file, the pending updates are cleared, and
\* where the old index was empty the new log holds the pending inserts only.  (Stated for runs without I/O
\* failure.)
C26_OrphanUpdateDropped ==
    [][/\ OrphanAccepted
       /\ (lastOp'.op \in {"saveData", "gracefulShutdown"} /\ NoFailure /\ Flushed) =>
             \A t \in Tables, id \in Ids :
                 OrphanUpdate(tables[t], id) =>
                     /\ ~HasRow(disk'[t], id)
                     /\ tables'[t].index[id] = NoEntry
                     /\ tables'[t].updates = <<>>
                     /\ (\A i \in Ids : tables[t].index[i] = NoEntry) =>
                            disk'[t].db = ToInsert(tables[t].inserts, 1).out]_vars

\* update has returned true for an id that has no index entry and no
\* pending insert; the update is pending, alone, and a flush is due.
C26_Witness ==
    /\ lastOp.op = "update"
    /\ lastOp.ret = RetTrue
    /\ saveTimer
    /\ writes > 0
    /\ \E t \in Tables :
          /\ OrphanUpdate(tables[t], lastOp.id)
          /\ tables[t].inserts = <<>>
          /\ tables[t].removals = <<>>
          /\ Len(tables[t].updates) = 1

\* C27: after a flush that succeeds, every table of the handle has no
\* pending insert, update or removal and no truncate watermark, the write
\* counter is 0 and lastWrite is the time of the flush.
C27_FlushClearsPending ==
    [][\A now \in 0..MaxTime :
          (/\ lastOp'.op \in {"saveData", "gracefulShutdown"}
           /\ lastOp'.ret = RetTrue
           /\ \/ SaveData(now, "none") /\ TimeToSave(now)
              \/ GracefulShutdown(now, "none")) =>
              /\ \A t \in Tables :
                    tables'[t].exists =>
                        /\ tables'[t].inserts = <<>>
                        /\ tables'[t].updates = <<>>
                        /\ tables'[t].removals = <<>>
                        /\ tables'[t].truncate = NoTruncate
              /\ writes' = 0
              /\ lastWrite' = now]_vars

\* A flush at time 1 has written a truncated table: nothing is pending, the
\* watermark is unset, the counter is 0.
C27_Witness ==
    /\ lastOp.op \in {"saveData", "gracefulShutdown"}
    /\ lastOp.ret = RetTrue
    /\ writes = 0
    /\ lastWrite = 1
    /\ \E t \in Tables :
          /\ tables[t].exists
          /\ tables[t].lastId = 0
          /\ disk[t].metaExists
          /\ disk[t].meta = 0
          /\ tables[t].inserts = <<>>
          /\ tables[t].updates = <<>>
          /\ tables[t].removals = <<>>
          /\ tables[t].truncate = NoTruncate

\* What get(t, id) is to return and leave as the cache, by the order of
\* resolution: earliest pending update, pending insert, pending removal,
\* cache entry, record on disk.  (The last step is stated for an id whose
\* index entry exists and whose bytes parse.)
Resolved(table, files, id) ==
    LET updateIx == FindIndex(table.updates, "object", Num(id))
        insertIx == FindIndex(table.inserts, "object", Num(id))
        cacheItem == table.cache[id]
        item == JSONparse(ReadSync(files.db, table.index[id].pos, table.index[id].len))
    IN IF updateIx # NotFound
       THEN [ret |-> RetRec(table.updates[updateIx]), cache |-> table.cache]
       ELSE IF insertIx # NotFound
       THEN [ret |-> RetRec(table.inserts[insertIx]), cache |-> table.cache]
       ELSE IF PendingRemoval(table, id)
       THEN [ret |-> RetNull, cache |-> table.cache]
       ELSE IF cacheItem.st = "live"
       THEN [ret |-> RetRec(cacheItem.item),
             cache |-> [table.cache EXCEPT ![id].timesUsed =
                          IF @ < UsageCap THEN @ + 1 ELSE UsageCap]]
       ELSE [ret |-> RetRec(item),
             cache |-> [table.cache EXCEPT ![id] =
                          [st |-> "live", item |-> item, timesUsed |-> 1]]]

\* get reaches the disk for an id without index entry or with bytes that do
\* not parse.
UnreadableOnDisk(table, files, id) ==
    /\ ~HasId(table.updates, id)
    /\ ~HasId(table.inserts, id)
    /\ ~PendingRemoval(table, id)
    /\ table.cache[id].st # "live"
    /\ \/ table.index[id] = NoEntry
       \/ ~files.dbExists
       \/ JSONparse(ReadSync(files.db, table.index[id].pos, table.index[id].len))
             = SyntaxError

\* C28: get(t, id) returns the first match in the order: earliest pending
\* update; pending insert; not found when the id is pending removal; the
\* cache entry, whose usage goes up by one up to the cap; the record read
\* from disk at the index entry, which is then cached with usage 1.  (Stated
\* for runs without I/O failure.)
C28_GetResolutionOrder ==
    [][\A t \in Tables, id \in Ids :
          (/\ lastOp'.op = "get"
           /\ NoFailure
           /\ tables[t].exists
           /\ ~UnreadableOnDisk(tables[t], disk[t], id)
           /\ Get(t, id)) =>
              /\ lastOp'.ret = Resolved(tables[t], disk[t], id).ret
              /\ tables'[t].cache = Resolved(tables[t], disk[t], id).cache]_vars

\* C29: get(t, id) on an existing table, for an id that is in no pending
\* array, has no live cache entry and no index entry, returns null and
\* throws nothing, whether the log file exists or not.  (Stated for runs
\* without I/O failure.)
C29_GetUnknownIdIsNull ==
    [][\A t \in Tables, id \in Ids :
          (/\ lastOp'.op = "get"
           /\ NoFailure
           /\ tables[t].exists
           /\ ~HasId(tables[t].updates, id)
           /\ ~HasId(tables[t].inserts, id)
           /\ ~PendingRemoval(tables[t], id)
           /\ tables[t].cache[id].st # "live"
           /\ tables[t].index[id] = NoEntry
           /\ Get(t, id)) =>
              lastOp'.ret = RetNull]_vars

\* C30: when update(t, r) or remove(t, id) has returned, the cache of the
\* table has no live entry for that id, so no later get is answered from an
\* entry made before the call; when truncate(t, start) has returned, the
\* cache of the table has no entry at all.
C30_CacheInvalidated ==
    [][\A t \in Tables :
          /\ \A data \in UpdateData :
                (lastOp'.op = "update" /\ Update(t, data)) =>
                    tables'[t].cache[data.id].st # "live"
          /\ \A id \in Ids :
                (lastOp'.op = "remove" /\ Remove(t, id)) =>
                    tables'[t].cache[id].st # "live"
          /\ \A start \in 0..MaxId :
                (lastOp'.op = "truncate" /\ Truncate(t, start)) =>
                    \A i \in Ids : tables'[t].cache[i] = NoCache]_vars

\* update or remove has just replaced the live cache entry of its id by
\* null.
C30_Witness ==
    /\ lastOp.op \in {"update", "remove"}
    /\ lastOp.ret = RetTrue
    /\ \E t \in Tables :
          /\ tables[t].exists
          /\ tables[t].cache[lastOp.id] = NullCache

\* What a read of the log through the table's current index entry of id
\* yields.
DiskRecord(t, id) ==
    JSONparse(ReadSync(disk[t].db, tables[t].index[id].pos, tables[t].index[id].len))

\* C31: in every reachable state each live cache entry of a table holds the
\* record that the log holds at the current index entry of its id: the id
\* has an index entry, the log file exists, and a read through the index
\* yields the cached record; the id is not a pending insert.
C31_CacheMatchesDisk ==
    \A t \in Tables, id \in Ids :
        (tables[t].exists /\ tables[t].cache[id].st = "live") =>
            /\ tables[t].index[id] # NoEntry
            /\ disk[t].dbExists
            /\ DiskRecord(t, id) = tables[t].cache[id].item
            /\ ~HasId(tables[t].inserts, id)

\* The pending arrays, the index, the watermark and lastId of every table
\* are as before the step.
BuffersUnchanged ==
    \A t \in Tables :
        /\ tables'[t].exists = tables[t].exists
        /\ tables'[t].inserts = tables[t].inserts
        /\ tables'[t].updates = tables[t].updates
        /\ tables'[t].removals = tables[t].removals
        /\ tables'[t].index = tables[t].index
        /\ tables'[t].truncate = tables[t].truncate
        /\ tables'[t].lastId = tables[t].lastId

\* C32: insert, update, remove and truncate leave every file as it is and
\* change nothing but the table objects and the write counter, which goes
\* up by exactly 1 when the call returns and stays when it throws; get,
\* getAll and collectCache leave the files, the write counter, the pending
\* arrays, the index and lastId as they are.
C32_WritesAreMemoryOnly ==
    [][/\ (steps' # steps
             /\ lastOp'.op \in {"insert", "update", "remove", "truncate"}) =>
             /\ disk' = disk
             /\ UNCHANGED <<lastWrite, forceSave, noMoreSaves, saveTimer,
                            requestedShutdowns, exiting, failures>>
             /\ IF lastOp'.ret.kind \in {"number", "true"}
                THEN writes' = writes + 1
                ELSE writes' = writes /\ tables' = tables
       /\ (steps' # steps
             /\ lastOp'.op \in {"get", "getAll", "collectCache"}) =>
             /\ disk' = disk
             /\ writes' = writes
             /\ BuffersUnchanged]_vars

\* Two writes have been counted, the last a removal, and the table has no
\* file yet.
C32_Witness ==
    /\ lastOp.op = "remove"
    /\ lastOp.ret = RetTrue
    /\ writes = 2
    /\ \E t \in Tables :
          /\ tables[t].exists
          /\ disk[t] = NoFiles

\* C33: once gracefulShutdown has run on a handle (noMoreSaves is set), the
\* flag stays set and no saveData timeout is scheduled for the handle any
\* more: a timeout that was pending stays pending until it fires, and
\* neither the tick that fires nor the .then handler of a flush sets a new
\* one.
C33_NoTickAfterShutdown ==
    [][\A h \in Handles :
          handles[h].noMoreSaves =>
              /\ handles'[h].noMoreSaves
              /\ handles'[h].saveTimer => handles[h].saveTimer
              /\ (\E due \in BOOLEAN, ok \in BOOLEAN : SaveTick(h, due, ok)) =>
                    ~handles'[h].saveTimer]_vars

\* A handle that was shut down has seen its forced flush complete and its
\* pending timeout fire; it has been written to since and has no timeout.
C33_Witness ==
    \E h \in Handles :
        /\ handles[h].noMoreSaves
        /\ handles[h].flushed
        /\ ~handles[h].forceSave
        /\ ~handles[h].saveTimer
        /\ handles[h].writes > 0

\* Nothing is pending on the handle: the write counter is 0 and no table
\* has anything to save.
Drained ==
    /\ writes = 0
    /\ \A t \in Tables : tables[t].exists => NothingToSave(tables[t])

\* C34: a handle that has counted a write since its last flush and has not
\* been shut down is flushed in the end, its pending state drained, by the
\* first tick that finds more than deltaTimeToSave elapsed, even though the
\* write counter stays at or below writesToSave and whatever is written in
\* between.  (Ticks are fair, the clock runs up to MaxTime, no fs call
\* fails.)
C34_WritesEventuallyFlushed ==
    (writes > 0 /\ ~noMoreSaves /\ lastWrite < MaxTime) ~> Drained

\* The timer has flushed, at a time after the last flush before it, a
\* handle whose write counter had not passed writesToSave.
C34_Witness ==
    /\ lastOp.op = "saveData"
    /\ lastOp.ret = RetTrue
    /\ ~noMoreSaves
    /\ lastWrite = MaxTime
    /\ steps <= WritesToSave + 1
    /\ Drained
    /\ \E t \in Tables : disk[t].dbExists

\* C35: after a flush that was triggered and succeeded, a handle opened on
\* the directory loads every table of the flushing handle with the lastId
\* that handle has in memory, so insert on the new handle does not return
\* an id again.  (Stated for runs without I/O failure.)
C35_ReopenKeepsLastId ==
    [][(lastOp'.op \in {"saveData", "gracefulShutdown"} /\ NoFailure /\ Flushed) =>
          \A t \in Tables :
              tables'[t].exists =>
                  /\ initialize(disk')[t].exists
                  /\ initialize(disk')[t].lastId = tables'[t].lastId]_vars

====
